---- MODULE Spec2Model ----
(***************************************************************************)
(* Model of amgui's Window base class (src/window.py): the construction    *)
(* sequence of Window.__init__, Window._init_glfw with its two failure     *)
(* paths, the blocking poll/draw loop of Window._glfw_loop, the frame      *)
(* bracket of Window._draw, the refresh callback and the tear down.        *)
(*                                                                         *)
(* pc is the statement the main thread executes next.  The windowing       *)
(* library (glfw), the GUI library (imgui) and the file system are modelled*)
(* by the part of their state the code reads or writes.  trace records the *)
(* start-up and tear-down calls in the order they are made; iter records   *)
(* the calls of the current loop iteration.                                *)
(***************************************************************************)
EXTENDS Integers, Sequences, FiniteSets, TLC

\* Largest number of window refresh events one glfw.poll_events() delivers.
MaxRefresh == 2

\* ---------------------------------------------------------------- constants
GLFW_CONTEXT_VERSION_MAJOR == 3
GLFW_CONTEXT_VERSION_MINOR == 3
GLFW_OPENGL_PROFILE == "OPENGL_CORE_PROFILE"
WINDOW_ID_UNIQUE == "uuid4"
IMGUI_INI_DIR == <<"tempdir", "amgui">>

\* The class attributes a Window subclass may override.
WindowClasses ==
    [WINDOW_ICON : {"None", "Icon"},
     WINDOW_ID_PERSISTENT : {"default", "myapp"},
     GROUP_UNIQUE_WINDOWS_IN_TASKBAR : BOOLEAN,
     IMGUI_USE_INI : BOOLEAN]

VARIABLES
    cls,              \* the class attributes of the subclass being constructed
    pc,               \* next statement of the main thread
    stack,            \* return addresses of the active _draw calls
    window,           \* "unset" | "null" | "valid": the handle of create_window
    renderer,         \* "none" | "live" | "shutdown"
    glfwState,        \* "uninit" | "init_failed" | "init" | "terminated"
    appUserModelID,   \* "unset" or the id given to the shell
    hints,            \* window hints set so far
    refreshCallback,  \* TRUE once _resize_event is the refresh callback
    shouldClose,      \* the window's should-close flag
    pendingRefresh,   \* refresh events the running poll_events still delivers
    nullHandleCalls,  \* glfw calls made with a null window handle
    imguiContext,     \* TRUE once imgui.create_context() has run
    iniFileName,      \* imgui.get_io().ini_file_name: "unset" | "None" | path
    openFrames,       \* imgui frames begun by new_frame and not yet rendered
    iniDirMade,       \* TRUE once os.makedirs(_IMGUI_INI_DIR) has run
    loads,            \* paths given to imgui.load_ini_settings_from_disk
    saves,            \* paths given to imgui.save_ini_settings_to_disk
    log,              \* messages logged as critical
    exitStatus,       \* -1, or the status given to exit()
    trace,            \* start-up and tear-down calls, in order
    iter              \* calls of the current loop iteration, in order

vars == <<cls, pc, stack, window, renderer, glfwState, appUserModelID, hints,
          refreshCallback, shouldClose, pendingRefresh, nullHandleCalls,
          imguiContext, iniFileName, openFrames, iniDirMade, loads, saves,
          log, exitStatus, trace, iter>>

glfwVars == <<window, glfwState, appUserModelID, hints, refreshCallback,
              shouldClose, pendingRefresh, nullHandleCalls>>
imguiVars == <<renderer, imguiContext, iniFileName, openFrames>>
fsVars == <<iniDirMade, loads, saves>>
procVars == <<log, exitStatus>>

\* ------------------------------------------------------------------ helpers
Count(s, e) == Cardinality({i \in DOMAIN s : s[i] = e})

IsPrefix(s, t) == Len(s) <= Len(t) /\ SubSeq(t, 1, Len(s)) = s

Front(s) == SubSeq(s, 1, Len(s) - 1)

Last(s) == s[Len(s)]

Select(s, S) == SelectSeq(s, LAMBDA e : e \in S)

\* First position of e in s, 0 when absent.
Pos(s, e) ==
    IF \E i \in DOMAIN s : s[i] = e
    THEN CHOOSE i \in DOMAIN s : s[i] = e /\ \A j \in 1..(i - 1) : s[j] # e
    ELSE 0

\* ---------------------------------------------------------- pure functions
\* Window._imgui_ini_path: _IMGUI_INI_DIR / f'{_WINDOW_ID_PERSISTENT}.ini'
imgui_ini_path_unique(c) == Append(IMGUI_INI_DIR, WINDOW_ID_UNIQUE \o ".ini")

imgui_ini_path(c) == Append(IMGUI_INI_DIR, c.WINDOW_ID_PERSISTENT \o ".ini")

\* ---------------------------------------------------------------------- Init
Init ==
    /\ cls \in WindowClasses
    /\ pc = "pre_init"
    /\ stack = <<>>
    /\ window = "unset"
    /\ renderer = "none"
    /\ glfwState = "uninit"
    /\ appUserModelID = "unset"
    /\ hints = <<>>
    /\ refreshCallback = FALSE
    /\ shouldClose = FALSE
    /\ pendingRefresh = 0
    /\ nullHandleCalls = {}
    /\ imguiContext = FALSE
    /\ iniFileName = "unset"
    /\ openFrames = 0
    /\ iniDirMade = FALSE
    /\ loads = <<>>
    /\ saves = <<>>
    /\ log = <<>>
    /\ exitStatus = -1
    /\ trace = <<>>
    /\ iter = <<>>

\* ------------------------------------------------------------ Window.__init__
\* self._pre_init()
PreInit ==
    /\ pc = "pre_init"
    /\ pc' = "glfw_init"
    /\ trace' = Append(trace, "_pre_init")
    /\ UNCHANGED <<cls, stack, glfwVars, imguiVars, fsVars, procVars, iter>>

\* ---------------------------------------------------------- Window._init_glfw
\* if not glfw.init(): logger.critical(...); exit(1)
GlfwInit_no_exit ==
    /\ pc = "glfw_init"
    /\ \E ok \in BOOLEAN :
         IF ok
         THEN /\ glfwState' = "init"
              /\ trace' = Append(trace, "glfw.init")
              /\ UNCHANGED <<log>>
         ELSE /\ glfwState' = "init_failed"
              /\ log' = Append(log, "Could not initialize OpenGL context")
              /\ trace' = trace \o <<"glfw.init", "logger.critical">>
    /\ pc' = "app_id"
    /\ UNCHANGED <<cls, stack, window, appUserModelID, hints, refreshCallback,
                   shouldClose, pendingRefresh, nullHandleCalls, imguiVars,
                   fsVars, exitStatus, iter>>

GlfwInit ==
    /\ pc = "glfw_init"
    /\ \E ok \in BOOLEAN :
         IF ok
         THEN /\ glfwState' = "init"
              /\ pc' = "app_id"
              /\ trace' = Append(trace, "glfw.init")
              /\ UNCHANGED procVars
         ELSE /\ glfwState' = "init_failed"
              /\ log' = Append(log, "Could not initialize OpenGL context")
              /\ exitStatus' = 1
              /\ pc' = "exited"
              /\ trace' = trace \o <<"glfw.init", "logger.critical", "exit">>
    /\ UNCHANGED <<cls, stack, window, appUserModelID, hints, refreshCallback,
                   shouldClose, pendingRefresh, nullHandleCalls, imguiVars,
                   fsVars, iter>>

\* ctypes.windll.shell32.SetCurrentProcessExplicitAppUserModelID(...);
\* ctypes.windll exists on Windows only, elsewhere the lookup raises
\* AttributeError, which leaves __init__.
SetAppUserModelID ==
    /\ pc = "app_id"
    /\ \E hasWindll \in BOOLEAN :
         IF hasWindll
         THEN /\ appUserModelID' =
                    IF cls.GROUP_UNIQUE_WINDOWS_IN_TASKBAR
                    THEN cls.WINDOW_ID_PERSISTENT
                    ELSE WINDOW_ID_UNIQUE
              /\ pc' = "window_hints"
              /\ trace' = Append(trace, "SetCurrentProcessExplicitAppUserModelID")
         ELSE /\ pc' = "raised"
              /\ UNCHANGED <<appUserModelID, trace>>
    /\ UNCHANGED <<cls, stack, window, glfwState, hints, refreshCallback,
                   shouldClose, pendingRefresh, nullHandleCalls, imguiVars,
                   fsVars, procVars, iter>>

\* the four glfw.window_hint calls
WindowHints ==
    /\ pc = "window_hints"
    /\ hints' = <<<<"CONTEXT_VERSION_MAJOR", GLFW_CONTEXT_VERSION_MAJOR>>,
                  <<"CONTEXT_VERSION_MINOR", GLFW_CONTEXT_VERSION_MINOR>>,
                  <<"OPENGL_PROFILE", GLFW_OPENGL_PROFILE>>,
                  <<"OPENGL_FORWARD_COMPAT", TRUE>>>>
    /\ pc' = "create_window"
    /\ trace' = Append(trace, "glfw.window_hint")
    /\ UNCHANGED <<cls, stack, window, glfwState, appUserModelID,
                   refreshCallback, shouldClose, pendingRefresh,
                   nullHandleCalls, imguiVars, fsVars, procVars, iter>>

\* window = glfw.create_window(...): a handle, or None on failure
CreateWindow ==
    /\ pc = "create_window"
    /\ \E ok \in BOOLEAN : window' = IF ok THEN "valid" ELSE "null"
    /\ pc' = "make_context_current"
    /\ trace' = Append(trace, "glfw.create_window")
    /\ UNCHANGED <<cls, stack, glfwState, appUserModelID, hints,
                   refreshCallback, shouldClose, pendingRefresh,
                   nullHandleCalls, imguiVars, fsVars, procVars, iter>>

\* glfw.make_context_current(window): with a null handle it detaches the
\* current context and returns.
MakeContextCurrent ==
    /\ pc = "make_context_current"
    /\ nullHandleCalls' =
           IF window = "null"
           THEN nullHandleCalls \cup {"glfw.make_context_current"}
           ELSE nullHandleCalls
    /\ pc' = "window_icon"
    /\ trace' = Append(trace, "glfw.make_context_current")
    /\ UNCHANGED <<cls, stack, window, glfwState, appUserModelID, hints,
                   refreshCallback, shouldClose, pendingRefresh, imguiVars,
                   fsVars, procVars, iter>>

\* if cls._WINDOW_ICON is not None: glfw.set_window_icon(window, ...).
\* glfwSetWindowIcon on a null handle is undefined: the process is killed
\* (assertion or null dereference) or the call returns.
SetWindowIcon ==
    /\ pc = "window_icon"
    /\ IF cls.WINDOW_ICON = "None"
       THEN /\ pc' = "check_window"
            /\ UNCHANGED <<nullHandleCalls, trace>>
       ELSE /\ trace' = Append(trace, "glfw.set_window_icon")
            /\ IF window = "null"
               THEN /\ nullHandleCalls' =
                          nullHandleCalls \cup {"glfw.set_window_icon"}
                    /\ \E survives \in BOOLEAN :
                          pc' = IF survives THEN "check_window" ELSE "crashed"
               ELSE /\ pc' = "check_window"
                    /\ UNCHANGED nullHandleCalls
    /\ UNCHANGED <<cls, stack, window, glfwState, appUserModelID, hints,
                   refreshCallback, shouldClose, pendingRefresh, imguiVars,
                   fsVars, procVars, iter>>

\* if not window: glfw.terminate(); logger.critical(...); exit(1)
CheckWindow ==
    /\ pc = "check_window"
    /\ IF window = "null"
       THEN /\ glfwState' = "terminated"
            /\ log' = Append(log, "Could not initialize Window")
            /\ exitStatus' = 1
            /\ pc' = "exited"
            /\ trace' = trace \o <<"glfw.terminate", "logger.critical", "exit">>
       ELSE /\ pc' = "create_context"
            /\ UNCHANGED <<glfwState, procVars, trace>>
    /\ UNCHANGED <<cls, stack, window, appUserModelID, hints, refreshCallback,
                   shouldClose, pendingRefresh, nullHandleCalls, imguiVars,
                   fsVars, iter>>

\* imgui.create_context()
ImguiCreateContext ==
    /\ pc = "create_context"
    /\ imguiContext' = TRUE
    /\ pc' = "makedirs"
    /\ trace' = Append(trace, "imgui.create_context")
    /\ UNCHANGED <<cls, stack, glfwVars, renderer, iniFileName, openFrames,
                   fsVars, procVars, iter>>

\* os.makedirs(cls._IMGUI_INI_DIR, exist_ok=True)
MakeDirs ==
    /\ pc = "makedirs"
    /\ iniDirMade' = TRUE
    /\ pc' = "ini_setup"
    /\ trace' = Append(trace, "os.makedirs")
    /\ UNCHANGED <<cls, stack, glfwVars, imguiVars, loads, saves, procVars,
                   iter>>

\* if cls._IMGUI_USE_INI: set ini_file_name and load, else ini_file_name = None
IniSetup_load_unique ==
    /\ pc = "ini_setup"
    /\ IF cls.IMGUI_USE_INI
       THEN /\ iniFileName' = imgui_ini_path_unique(cls)
            /\ loads' = Append(loads, imgui_ini_path_unique(cls))
            /\ trace' = Append(trace, "imgui.load_ini_settings_from_disk")
       ELSE /\ iniFileName' = "None"
            /\ UNCHANGED <<loads, trace>>
    /\ pc' = "create_renderer"
    /\ UNCHANGED <<cls, stack, glfwVars, renderer, imguiContext, openFrames,
                   iniDirMade, saves, procVars, iter>>

IniSetup ==
    /\ pc = "ini_setup"
    /\ IF cls.IMGUI_USE_INI
       THEN /\ iniFileName' = imgui_ini_path(cls)
            /\ loads' = Append(loads, imgui_ini_path(cls))
            /\ trace' = Append(trace, "imgui.load_ini_settings_from_disk")
       ELSE /\ iniFileName' = "None"
            /\ UNCHANGED <<loads, trace>>
    /\ pc' = "create_renderer"
    /\ UNCHANGED <<cls, stack, glfwVars, renderer, imguiContext, openFrames,
                   iniDirMade, saves, procVars, iter>>

\* renderer = GlfwRenderer(window); gl.glClearColor(...); return
CreateRenderer ==
    /\ pc = "create_renderer"
    /\ renderer' = "live"
    /\ pc' = "set_refresh_callback"
    /\ trace' = Append(trace, "GlfwRenderer")
    /\ UNCHANGED <<cls, stack, glfwVars, imguiContext, iniFileName,
                   openFrames, fsVars, procVars, iter>>

\* ------------------------------------------------- Window.__init__, continued
\* glfw.set_window_refresh_callback(self.window, self._resize_event)
SetRefreshCallback ==
    /\ pc = "set_refresh_callback"
    /\ refreshCallback' = TRUE
    /\ pc' = "post_init"
    /\ trace' = Append(trace, "glfw.set_window_refresh_callback")
    /\ UNCHANGED <<cls, stack, window, glfwState, appUserModelID, hints,
                   shouldClose, pendingRefresh, nullHandleCalls, imguiVars,
                   fsVars, procVars, iter>>

\* self._post_init()
PostInit_skipped ==
    /\ pc = "post_init"
    /\ pc' = "glfw_loop"
    /\ UNCHANGED <<cls, stack, glfwVars, imguiVars, fsVars, procVars, trace,
                   iter>>

PostInit ==
    /\ pc = "post_init"
    /\ pc' = "glfw_loop"
    /\ trace' = Append(trace, "_post_init")
    /\ UNCHANGED <<cls, stack, glfwVars, imguiVars, fsVars, procVars, iter>>

\* self._glfw_loop()
GlfwLoop ==
    /\ pc = "glfw_loop"
    /\ pc' = "loop_test"
    /\ trace' = Append(trace, "_glfw_loop")
    /\ UNCHANGED <<cls, stack, glfwVars, imguiVars, fsVars, procVars, iter>>

\* ---------------------------------------------------------- Window._glfw_loop
\* while not glfw.window_should_close(self.window):
LoopTest_ignores_flag ==
    /\ pc = "loop_test"
    /\ pc' = "poll_events"
    /\ iter' = <<>>
    /\ UNCHANGED <<cls, stack, glfwVars, imguiVars, fsVars, procVars, trace>>

LoopTest ==
    /\ pc = "loop_test"
    /\ pc' = IF shouldClose THEN "pre_exit_loop" ELSE "poll_events"
    /\ iter' = <<>>
    /\ UNCHANGED <<cls, stack, glfwVars, imguiVars, fsVars, procVars, trace>>

\* glfw.poll_events(): the event pump takes the pending events: the user may
\* have asked to close the window, and up to MaxRefresh refresh events are
\* delivered to the refresh callback before the call returns.
PollEvents ==
    /\ pc = "poll_events"
    /\ \E close \in BOOLEAN : shouldClose' = (shouldClose \/ close)
    /\ \E n \in 0..MaxRefresh : pendingRefresh' = n
    /\ pc' = "pumping"
    /\ iter' = Append(iter, "glfw.poll_events")
    /\ UNCHANGED <<cls, stack, window, glfwState, appUserModelID, hints,
                   refreshCallback, nullHandleCalls, imguiVars, fsVars,
                   procVars, trace>>

\* Window._resize_event, called by the pump: self._draw()
ResizeEvent ==
    /\ pc = "pumping"
    /\ refreshCallback
    /\ pendingRefresh > 0
    /\ pendingRefresh' = pendingRefresh - 1
    /\ stack' = Append(stack, "pumping")
    /\ pc' = "new_frame"
    /\ iter' = iter \o <<"_resize_event", "_draw">>
    /\ UNCHANGED <<cls, window, glfwState, appUserModelID, hints,
                   refreshCallback, shouldClose, nullHandleCalls, imguiVars,
                   fsVars, procVars, trace>>

\* glfw.poll_events() returns
PollEventsReturn ==
    /\ pc = "pumping"
    /\ pendingRefresh = 0
    /\ pc' = "process_inputs"
    /\ UNCHANGED <<cls, stack, glfwVars, imguiVars, fsVars, procVars, trace,
                   iter>>

\* self._renderer.process_inputs(); the want_save_ini_settings test only prints
ProcessInputs ==
    /\ pc = "process_inputs"
    /\ pc' = "loop_draw"
    /\ iter' = Append(iter, "renderer.process_inputs")
    /\ UNCHANGED <<cls, stack, glfwVars, imguiVars, fsVars, procVars, trace>>

\* self._draw() as the last statement of the loop body
LoopDraw ==
    /\ pc = "loop_draw"
    /\ stack' = Append(stack, "loop_test")
    /\ pc' = "new_frame"
    /\ iter' = Append(iter, "_draw")
    /\ UNCHANGED <<cls, glfwVars, imguiVars, fsVars, procVars, trace>>

\* --------------------------------------------------------------- Window._draw
\* imgui.new_frame()
NewFrame ==
    /\ pc = "new_frame"
    /\ openFrames' = openFrames + 1
    /\ pc' = "user_draw"
    /\ iter' = Append(iter, "imgui.new_frame")
    /\ UNCHANGED <<cls, stack, glfwVars, renderer, imguiContext, iniFileName,
                   fsVars, procVars, trace>>

\* self.draw(); gl.glClearColor(...); gl.glClear(...)
UserDraw ==
    /\ pc = "user_draw"
    /\ pc' = "imgui_render"
    /\ iter' = Append(iter, "draw")
    /\ UNCHANGED <<cls, stack, glfwVars, imguiVars, fsVars, procVars, trace>>

\* imgui.render(): ends the frame
ImguiRender_leaves_frame_open ==
    /\ pc = "imgui_render"
    /\ pc' = "renderer_render"
    /\ iter' = Append(iter, "imgui.render")
    /\ UNCHANGED <<cls, stack, glfwVars, imguiVars, fsVars, procVars, trace>>

ImguiRender ==
    /\ pc = "imgui_render"
    /\ openFrames' = openFrames - 1
    /\ pc' = "renderer_render"
    /\ iter' = Append(iter, "imgui.render")
    /\ UNCHANGED <<cls, stack, glfwVars, renderer, imguiContext, iniFileName,
                   fsVars, procVars, trace>>

\* try: self._renderer.render(imgui.get_draw_data()) except AttributeError: pass
RendererRender ==
    /\ pc = "renderer_render"
    /\ \E raisesAttributeError \in BOOLEAN :
          iter' = Append(iter, IF raisesAttributeError
                               THEN "renderer.render!AttributeError"
                               ELSE "renderer.render")
    /\ pc' = "swap_buffers"
    /\ UNCHANGED <<cls, stack, glfwVars, imguiVars, fsVars, procVars, trace>>

\* glfw.swap_buffers(self.window); _draw returns to its caller
SwapBuffers ==
    /\ pc = "swap_buffers"
    /\ pc' = Last(stack)
    /\ stack' = Front(stack)
    /\ iter' = Append(iter, "glfw.swap_buffers")
    /\ UNCHANGED <<cls, glfwVars, imguiVars, fsVars, procVars, trace>>

\* ------------------------------------------------ Window._glfw_loop, the exit
\* self._pre_exit_loop(): imgui.save_ini_settings_to_disk(self._imgui_ini_path())
PreExitLoop ==
    /\ pc = "pre_exit_loop"
    /\ saves' = Append(saves, imgui_ini_path(cls))
    /\ pc' = "renderer_shutdown"
    /\ trace' = trace \o <<"_pre_exit_loop", "imgui.save_ini_settings_to_disk">>
    /\ UNCHANGED <<cls, stack, glfwVars, imguiVars, iniDirMade, loads,
                   procVars, iter>>

\* self._renderer.shutdown()
RendererShutdown_skipped ==
    /\ pc = "renderer_shutdown"
    /\ pc' = "glfw_terminate"
    /\ UNCHANGED <<cls, stack, glfwVars, imguiVars, fsVars, procVars, trace,
                   iter>>

RendererShutdown ==
    /\ pc = "renderer_shutdown"
    /\ renderer' = "shutdown"
    /\ pc' = "glfw_terminate"
    /\ trace' = Append(trace, "renderer.shutdown")
    /\ UNCHANGED <<cls, stack, glfwVars, imguiContext, iniFileName,
                   openFrames, fsVars, procVars, iter>>

\* glfw.terminate(); _glfw_loop and then __init__ return
GlfwTerminate ==
    /\ pc = "glfw_terminate"
    /\ glfwState' = "terminated"
    /\ pc' = "returned"
    /\ trace' = Append(trace, "glfw.terminate")
    /\ UNCHANGED <<cls, stack, window, appUserModelID, hints, refreshCallback,
                   shouldClose, pendingRefresh, nullHandleCalls, imguiVars,
                   fsVars, procVars, iter>>

\* ---------------------------------------------------------------------- Next
Next ==
    \/ PreInit
    \/ GlfwInit
    \/ SetAppUserModelID
    \/ WindowHints
    \/ CreateWindow
    \/ MakeContextCurrent
    \/ SetWindowIcon
    \/ CheckWindow
    \/ ImguiCreateContext
    \/ MakeDirs
    \/ IniSetup
    \/ CreateRenderer
    \/ SetRefreshCallback
    \/ PostInit
    \/ GlfwLoop
    \/ LoopTest
    \/ PollEvents
    \/ ResizeEvent
    \/ PollEventsReturn
    \/ ProcessInputs
    \/ LoopDraw
    \/ NewFrame
    \/ UserDraw
    \/ ImguiRender
    \/ RendererRender
    \/ SwapBuffers
    \/ PreExitLoop
    \/ RendererShutdown
    \/ GlfwTerminate

Spec == Init /\ [][Next]_vars

\* The main thread is never suspended: a statement that can run does run.
FairSpec == Spec /\ WF_vars(Next)

\* ------------------------------------------------------------------ properties
LoopPcs == {"poll_events", "pumping", "process_inputs", "loop_draw",
            "new_frame", "user_draw", "imgui_render", "renderer_render",
            "swap_buffers"}

TeardownPcs == {"pre_exit_loop", "renderer_shutdown", "glfw_terminate",
                "returned"}

FailurePcs == {"exited", "crashed", "raised"}

\* The calls of a construction that succeeds, in program order.
Canon(c) ==
    <<"_pre_init", "glfw.init", "SetCurrentProcessExplicitAppUserModelID",
      "glfw.window_hint", "glfw.create_window", "glfw.make_context_current">>
    \o (IF c.WINDOW_ICON = "None" THEN <<>> ELSE <<"glfw.set_window_icon">>)
    \o <<"imgui.create_context", "os.makedirs">>
    \o (IF c.IMGUI_USE_INI THEN <<"imgui.load_ini_settings_from_disk">>
                           ELSE <<>>)
    \o <<"GlfwRenderer", "glfw.set_window_refresh_callback", "_post_init",
         "_glfw_loop", "_pre_exit_loop", "imgui.save_ini_settings_to_disk",
         "renderer.shutdown", "glfw.terminate">>

\* The statement-level calls of the current iteration.
TopLevel ==
    Select(iter, {"glfw.poll_events", "_resize_event",
                  "renderer.process_inputs", "_draw"})

\* One iteration in which the pump delivered k refresh events.
Iteration(k) ==
    <<"glfw.poll_events">>
    \o [i \in 1..(2 * k) |-> IF i % 2 = 1 THEN "_resize_event" ELSE "_draw"]
    \o <<"renderer.process_inputs", "_draw">>

\* The frame calls of n consecutive well bracketed frames.
Frames(n) ==
    [i \in 1..(3 * n) |-> IF i % 3 = 1 THEN "imgui.new_frame"
                          ELSE IF i % 3 = 2 THEN "imgui.render"
                          ELSE "glfw.swap_buffers"]

FrameCalls ==
    Select(iter, {"imgui.new_frame", "imgui.render", "glfw.swap_buffers"})

\* C1: a construction that succeeds makes its start-up and tear-down calls in
\* the one fixed order _pre_init, glfw initialisation and window creation,
\* imgui context creation, _post_init, the loop, tear down, each once; every
\* loop iteration is poll_events, then process_inputs, then one _draw, and
\* iterations happen only after _post_init and before the tear down.
C1_PhaseOrder ==
    /\ (window # "null" /\ pc \notin FailurePcs) => IsPrefix(trace, Canon(cls))
    /\ pc = "returned" => trace = Canon(cls)
    /\ (iter # <<>> \/ pc \in LoopPcs) => Last(trace) = "_glfw_loop"
    /\ IsPrefix(TopLevel, Iteration(Count(iter, "_resize_event")))
    /\ (pc = "loop_test" /\ iter # <<>>)
          => TopLevel = Iteration(Count(iter, "_resize_event"))

C1_Witness ==
    /\ pc = "returned"
    /\ Count(trace, "_post_init") = 1
    /\ Pos(trace, "_post_init") < Pos(trace, "_glfw_loop")

\* C2: when create_window returns a null handle the run ends by logging the
\* failure as critical, terminating glfw and exiting with status 1, and no
\* imgui context, renderer, _post_init call or loop happens on that path.
C2_CreateWindowFailureExits ==
    window = "null" =>
        /\ ~imguiContext
        /\ renderer = "none"
        /\ Count(trace, "_post_init") = 0
        /\ Count(trace, "_glfw_loop") = 0
        /\ iter = <<>>
        /\ pc \in FailurePcs \cup {"returned"} =>
              /\ pc = "exited"
              /\ exitStatus = 1
              /\ log = <<"Could not initialize Window">>
              /\ glfwState = "terminated"

\* C3: when glfw.init() fails the failure is logged as critical and the
\* process exits with status 1, before any window hint, window, imgui context,
\* settings directory or file, or loop; _pre_init is the only hook that ran.
C3_InitFailureExits ==
    glfwState = "init_failed" =>
        /\ pc = "exited"
        /\ exitStatus = 1
        /\ log = <<"Could not initialize OpenGL context">>
        /\ trace = <<"_pre_init", "glfw.init", "logger.critical", "exit">>
        /\ hints = <<>>
        /\ appUserModelID = "unset"
        /\ window = "unset"
        /\ ~imguiContext
        /\ renderer = "none"
        /\ ~iniDirMade
        /\ iniFileName = "unset"
        /\ loads = <<>>
        /\ saves = <<>>
        /\ ~refreshCallback
        /\ iter = <<>>

C3_Witness ==
    /\ glfwState = "init_failed"
    /\ pc = "exited"
    /\ exitStatus = 1

\* C4: when construction returns, _post_exit_loop has been called exactly
\* once, after renderer.shutdown and glfw.terminate.
C4_PostExitLoopCalled ==
    pc = "returned" =>
        /\ Count(trace, "_post_exit_loop") = 1
        /\ Pos(trace, "renderer.shutdown") < Pos(trace, "_post_exit_loop")
        /\ Pos(trace, "glfw.terminate") < Pos(trace, "_post_exit_loop")

\* C5: _pre_exit_loop is called exactly once, when the loop has exited, after
\* the last frame and before renderer.shutdown and glfw.terminate; it saves
\* the settings to <_IMGUI_INI_DIR>/<_WINDOW_ID_PERSISTENT>.ini, the path the
\* settings were loaded from at initialisation.
C5_PreExitLoop ==
    /\ pc \notin TeardownPcs =>
          (Count(trace, "_pre_exit_loop") = 0 /\ saves = <<>>)
    /\ pc = "pre_exit_loop" =>
          /\ Count(trace, "_pre_exit_loop") = 0
          /\ saves = <<>>
          /\ shouldClose
          /\ openFrames = 0
          /\ stack = <<>>
          /\ iter = <<>>
          /\ renderer = "live"
          /\ glfwState = "init"
    /\ pc \in TeardownPcs \ {"pre_exit_loop"} =>
          /\ Count(trace, "_pre_exit_loop") = 1
          /\ Pos(trace, "_glfw_loop") < Pos(trace, "_pre_exit_loop")
          /\ \A e \in {"renderer.shutdown", "glfw.terminate"} :
                Pos(trace, e) = 0 \/ Pos(trace, "_pre_exit_loop") < Pos(trace, e)
          /\ saves = <<<<"tempdir", "amgui", cls.WINDOW_ID_PERSISTENT \o ".ini">>>>
          /\ cls.IMGUI_USE_INI => (loads = saves /\ iniFileName = saves[1])
          /\ iter = <<>>

C5_Witness ==
    /\ pc = "renderer_shutdown"
    /\ cls.IMGUI_USE_INI
    /\ cls.WINDOW_ID_PERSISTENT = "myapp"
    /\ loads = <<<<"tempdir", "amgui", "myapp.ini">>>>
    /\ saves = loads

\* C6: poll_events, process_inputs, _draw and swap_buffers happen only on a
\* valid window with a live renderer and an initialised glfw; the tear down
\* calls renderer.shutdown once and then glfw.terminate once, and once the
\* tear down has begun no frame is open, no _draw is active and no loop or
\* callback operation has happened.
C6_UseOnlyWhileOpen ==
    /\ (pc \in LoopPcs \/ iter # <<>> \/ stack # <<>> \/ openFrames # 0) =>
          /\ window = "valid"
          /\ renderer = "live"
          /\ glfwState = "init"
          /\ imguiContext
    /\ Count(trace, "renderer.shutdown") <= 1
    /\ Count(trace, "glfw.terminate") <= 1
    /\ pc \in TeardownPcs =>
          /\ iter = <<>>
          /\ stack = <<>>
          /\ openFrames = 0
          /\ pendingRefresh = 0
    /\ pc = "returned" =>
          /\ Count(trace, "renderer.shutdown") = 1
          /\ Count(trace, "glfw.terminate") = 1
          /\ Pos(trace, "renderer.shutdown") < Pos(trace, "glfw.terminate")
          /\ renderer = "shutdown"
          /\ glfwState = "terminated"

C6_Witness ==
    /\ pc = "returned"
    /\ renderer = "shutdown"
    /\ glfwState = "terminated"
    /\ refreshCallback

\* C7: the loop is left only from its test and only with the should-close
\* flag set; with the flag set the test starts no further iteration, the flag
\* stays set, and the run then reaches the end of the tear down; with the flag
\* clear the test starts another iteration.
C7_CloseEndsLoop ==
    /\ [][pc = "loop_test" =>
             pc' = IF shouldClose THEN "pre_exit_loop" ELSE "poll_events"]_vars
    /\ [][(pc \in LoopPcs \cup {"loop_test"} /\ pc' \notin LoopPcs \cup {"loop_test"})
             => (pc = "loop_test" /\ shouldClose /\ pc' = "pre_exit_loop")]_vars
    /\ [][shouldClose => shouldClose']_vars
    /\ (shouldClose ~> (pc = "returned" /\ renderer = "shutdown"
                           /\ glfwState = "terminated"
                           /\ Count(trace, "_pre_exit_loop") = 1))

C7_Witness ==
    /\ shouldClose
    /\ pc = "returned"
    /\ Count(trace, "_pre_exit_loop") = 1

\* C8: _draw is never re-entered, the refresh callback draws only inside
\* poll_events, at most one imgui frame is open at any time, and every
\* imgui.new_frame is followed by imgui.render and glfw.swap_buffers before
\* the next imgui.new_frame.
C8_FramesBracketed ==
    /\ Len(stack) <= 1
    /\ openFrames \in {0, 1}
    /\ pc = "new_frame" => openFrames = 0
    /\ openFrames = 1 <=> pc \in {"user_draw", "imgui_render"}
    /\ IsPrefix(FrameCalls, Frames(MaxRefresh + 1))
    /\ (stack # <<>> /\ stack[1] = "pumping") =>
          (Count(iter, "renderer.process_inputs") = 0
             /\ iter[1] = "glfw.poll_events")
    /\ stack # <<>> <=>
          pc \in {"new_frame", "user_draw", "imgui_render", "renderer_render",
                  "swap_buffers"}

C8_Witness ==
    /\ pc = "swap_buffers"
    /\ stack = <<"loop_test">>
    /\ Count(iter, "_resize_event") = MaxRefresh
    /\ Count(iter, "imgui.new_frame") = MaxRefresh + 1

\* C9: no glfw call is made with a window handle that is null.
C9_NoNullHandleUse ==
    nullHandleCalls = {}

\* C10: with _IMGUI_USE_INI false the ini file name is None and no settings
\* file is loaded or saved during the whole run; with it true the settings are
\* loaded once at initialisation and saved once at exit.
C10_IniOffMeansNoPersistence ==
    /\ ~cls.IMGUI_USE_INI =>
          /\ iniFileName \in {"unset", "None"}
          /\ loads = <<>>
          /\ saves = <<>>
    /\ (cls.IMGUI_USE_INI /\ pc = "returned") =>
          (Len(loads) = 1 /\ Len(saves) = 1)

====
